---- MODULE Spec2Model ----
(***************************************************************************)
(* Floor-plan geometry and presentation engine of Garrur/Floor_Plan.       *)
(*                                                                         *)
(* The model follows the React components FloorPlanViewer (the parent that *)
(* owns the aggregate `metadata` and the `view`), FloorPlanEditor (the 2D  *)
(* vertex editor with its working room list `rooms`, its viewport          *)
(* `dimensions` and the fit transform `stageConfig`) and FloorPlan3D (the  *)
(* extruded projection).                                                   *)
(*                                                                         *)
(* Numbers.  Coordinates and areas of the model are integers; the pixel    *)
(* area of a polygon with integer vertices is a multiple of 1/2, so the    *)
(* shoelace sum is kept doubled (Area2).  The fit transform is a triple of *)
(* exact rationals <<n, d>>.  area_sqft is computed on exact rationals     *)
(* too: a double differs from the exact value only next to a tie of        *)
(* Math.round, and no property below rests on a tie.  Where a fallback     *)
(* side is a square root (FallbackSides) and where calculatePolygonArea is *)
(* examined on its own, the coordinates are rationals as well.             *)
(*                                                                         *)
(* Specifications.  Spec is the viewer with its editor.  NormalizerSpec,   *)
(* FallbackSpec, FitSpec, AreaSpec and ColorSpec each examine one pure     *)
(* function on arguments drawn from a bounded set.                         *)
(*                                                                         *)
(* Scheduling.  A setRooms call is applied to `rooms` when it is made:     *)
(* React applies the queued updates of one state in the order of the       *)
(* calls, so folding them at once gives the state the next render sees.    *)
(* A render commits the state (rendRooms, rendDims, propMeta are what the  *)
(* committed closures see); the passive effects of a commit run in a       *)
(* later step, and input events may arrive in between.                     *)
(***************************************************************************)
EXTENDS Integers, Sequences, FiniteSets, TLC

(***************************************************************************)
(* Bounds of the model.                                                    *)
(***************************************************************************)
\* Number of input events of the editor (vertex drags and window resizes) in
\* one behaviour.
MaxEvents == 3

(***************************************************************************)
(* Program constants.                                                      *)
(***************************************************************************)
\* Furniture.tsx:279  Math.max(10, ...): the minimum area after an edit.
MinAreaSqft == 10
\* Furniture.tsx:180  coordinate units per foot of a synthesized rectangle.
UnitsPerFoot == 15
\* Furniture.tsx:192  gap between two synthesized rectangles.
FallbackGap == 20
\* Furniture.tsx:178  area assumed for a room without a usable area_sqft.
DefaultArea == 100
\* Furniture.tsx:183  side of a synthesized rectangle when w or l is unusable.
DefaultSide == 150
\* Furniture.tsx:237  padding of the viewport fit.
Padding == 40
\* Furniture.tsx:242  cap of the fit scale.
MaxScale == 2
\* Furniture.tsx:201  height of the stage.
StageHeight == 500
\* part_003:63 and part_003:230  height of one storey in the 3D projection.
wallHeight == 8

(***************************************************************************)
(* Values.                                                                 *)
(***************************************************************************)
\* An array slot that was never assigned (newPolygon[i] beyond the length).
Hole == <<"hole">>
\* What JSON.stringify / JSON.parse makes of such a slot.
Null == <<"null">>

IsPoint(p) == p # Hole /\ p # Null

\* RoomMetadata (types/api.ts), with the optional `id` the editor reads.
\* polygon = << >> stands for an absent polygon.
Room(hasId, id, type, polygon, area, hasDims, w, l, floor) ==
    [hasId |-> hasId, id |-> id, type |-> type, polygon |-> polygon,
     area_sqft |-> area, hasDims |-> hasDims, width_ft |-> w, length_ft |-> l,
     floor |-> floor]

\* FloorPlanMetadata (types/api.ts).
Aggregate(total, rs, beds, baths) ==
    [total_area_sqft |-> total, rooms |-> rs,
     num_bedrooms |-> beds, num_bathrooms |-> baths]

(***************************************************************************)
(* Exact rationals <<n, d>>, d > 0, in lowest terms.                       *)
(***************************************************************************)
Abs(n) == IF n < 0 THEN -n ELSE n

RECURSIVE GCD(_, _)
GCD(a, b) == IF b = 0 THEN a ELSE GCD(b, a % b)

Norm(n, d) ==
    LET s == IF d < 0 THEN -1 ELSE 1
        g == GCD(Abs(n), Abs(d))
    IN  IF n = 0 THEN <<0, 1>> ELSE <<(s * n) \div g, (s * d) \div g>>

Rat(n) == <<n, 1>>
RAdd(a, b) == Norm(a[1] * b[2] + b[1] * a[2], a[2] * b[2])
RSub(a, b) == Norm(a[1] * b[2] - b[1] * a[2], a[2] * b[2])
RMul(a, b) == Norm(a[1] * b[1], a[2] * b[2])
RDiv(a, b) == Norm(a[1] * b[2], a[2] * b[1])
RLess(a, b) == a[1] * b[2] < b[1] * a[2]
RMin(a, b) == IF RLess(b, a) THEN b ELSE a

(***************************************************************************)
(* Area Calculator.                                                        *)
(***************************************************************************)
\* polygon.reduce((acc, point) => [...acc, point[0], point[1]], []):
\* reduce skips the holes of an array.
Points(polygon) == SelectSeq(polygon, LAMBDA p : p # Hole)

\* point[0] on null or undefined raises a TypeError.
ReduceThrows(polygon) == \E i \in 1..Len(polygon) : polygon[i] = Null

\* Twice the signed shoelace sum is what calculatePolygonArea halves; Area2 is
\* 2 * calculatePolygonArea(points) = |sum (x[j] + x[i]) * (y[j] - y[i])|.
RECURSIVE ShoelaceSum(_, _)
ShoelaceSum(pts, i) ==
    IF i > Len(pts) THEN 0
    ELSE LET j == IF i = 1 THEN Len(pts) ELSE i - 1
         IN  (pts[j][1] + pts[i][1]) * (pts[j][2] - pts[i][2])
               + ShoelaceSum(pts, i + 1)

Area2(polygon) == Abs(ShoelaceSum(Points(polygon), 1))

\* calculatePolygonArea itself, on the flat array [x1, y1, x2, y2, ...] of
\* rationals it is handed.  i and j are the 0-based indexes of the code.
RAbs(x) == <<Abs(x[1]), x[2]>>

RECURSIVE AreaLoop(_, _, _, _)
AreaLoop(points, i, j, area) ==
    IF i >= Len(points) THEN area
    ELSE AreaLoop(points, i + 2, i,
                  RAdd(area, RMul(RAdd(points[j + 1], points[i + 1]),
                                  RSub(points[j + 2], points[i + 2]))))

\* The function without Math.abs.
calculatePolygonAreaSigned(points) ==
    RDiv(AreaLoop(points, 0, Len(points) - 2, Rat(0)), Rat(2))

\* The function with j starting at 0: the edge that closes the polygon is
\* left out.
calculatePolygonAreaOpen(points) ==
    RAbs(RDiv(AreaLoop(points, 0, 0, Rat(0)), Rat(2)))

calculatePolygonArea(points) ==
    RAbs(RDiv(AreaLoop(points, 0, Len(points) - 2, Rat(0)), Rat(2)))

\* polygon.reduce((acc, point) => [...acc, point[0], point[1]], []) on an
\* array without holes.
Flatten(polygon) ==
    [k \in 1..(2 * Len(polygon)) |->
        polygon[(k + 1) \div 2][IF k % 2 = 1 THEN 1 ELSE 2]]

(***************************************************************************)
(* Vertex Editor: the updater handleDragVertex hands to setRooms.          *)
(***************************************************************************)
RECURSIVE SumArea(_, _)
SumArea(rs, i) ==
    IF i > Len(rs) THEN 0 ELSE rs[i].area_sqft + SumArea(rs, i + 1)

\* updatedRooms.reduce((sum, r) => sum + r.area_sqft, 0)
TotalSqft(rs) == SumArea(rs, 1)

\* updatedRooms.findIndex(r => r.id === roomId || updatedRooms.indexOf(r) === roomId)
\* The result is the 0-based index of the first match, -1 when there is none.
FindRoomIndex(rs, roomId) ==
    LET hits == {i \in 1..Len(rs) :
                    (rs[i].hasId /\ rs[i].id = roomId) \/ i - 1 = roomId}
    IN  IF hits = {} THEN -1
        ELSE (CHOOSE i \in hits : \A k \in hits : i <= k) - 1

\* [...polygon]: the copy holds undefined where the array had a hole; reading
\* point[0] of it raises like reading it of null.
Spread(polygon) ==
    [i \in 1..Len(polygon) |-> IF polygon[i] = Hole THEN Null ELSE polygon[i]]

\* An editor that inserts the new position before the vertex instead of
\* replacing the vertex.
SetVertexInsert(polygon, vertexIndex, newPos) ==
    IF vertexIndex < 0 THEN polygon
    ELSE LET at == IF vertexIndex < Len(polygon) THEN vertexIndex
                   ELSE Len(polygon)
         IN  SubSeq(polygon, 1, at) \o <<newPos>>
                \o SubSeq(polygon, at + 1, Len(polygon))

\* newPolygon[vertexIndex] = [newPos.x, newPos.y] on a JavaScript array: an
\* index within the length replaces the element, an index at or beyond it
\* lengthens the array (leaving holes in between), a negative index sets a
\* property and leaves the elements alone.
SetVertex(polygon, vertexIndex, newPos) ==
    IF vertexIndex < 0 THEN polygon
    ELSE IF vertexIndex < Len(polygon)
         THEN [polygon EXCEPT ![vertexIndex + 1] = newPos]
         ELSE polygon
                \o [k \in 1..(vertexIndex - Len(polygon)) |-> Hole]
                \o <<newPos>>

\* Math.floor in the place of Math.round.
MathFloor(x) == x[1] \div x[2]

\* Math.round(x) = floor(x + 1/2).
MathRound(x) == (2 * x[1] + x[2]) \div (2 * x[2])

\* Math.max(a, b)
RMax(a, b) == IF RLess(a, b) THEN b ELSE a

\* calculatePolygonArea(points) as a rational.
AreaPixels(polygon) == Norm(Area2(polygon), 2)

\* An editor that takes one pixel as the old area of every polygon.
OldAreaPixelsUnit(polygon) == Rat(1)

\* const oldAreaPixels = calculatePolygonArea(oldFlat) || 1;
OldAreaPixels(polygon) ==
    IF Area2(polygon) = 0 THEN Rat(1) ELSE AreaPixels(polygon)

\* An editor without the Math.max(10, ...) floor.
NewAreaSqftNoFloor(newPolygon, oldPolygon, area_sqft) ==
    MathRound(RMul(AreaPixels(newPolygon),
                   RDiv(Rat(area_sqft), OldAreaPixels(oldPolygon))))

\* const ratio = newRoom.area_sqft / oldAreaPixels;
\* newRoom.area_sqft = Math.round(Math.max(10, areaPixels * ratio));
NewAreaSqft(newPolygon, oldPolygon, area_sqft) ==
    LET ratio == RDiv(Rat(area_sqft), OldAreaPixels(oldPolygon))
    IN  MathRound(RMax(Rat(MinAreaSqft), RMul(AreaPixels(newPolygon), ratio)))

\* The room the updater puts at roomIndex.
EditedRoom(room, vertexIndex, newPos) ==
    LET newPolygon == SetVertex(Spread(room.polygon), vertexIndex, newPos)
    IN  [room EXCEPT !.polygon = newPolygon,
                     !.area_sqft = NewAreaSqft(newPolygon, room.polygon,
                                               room.area_sqft)]

\* The two reduce calls of the updater read point[0] of every element.
UpdaterThrows(room, vertexIndex, newPos) ==
    \/ ReduceThrows(SetVertex(Spread(room.polygon), vertexIndex, newPos))
    \/ ReduceThrows(room.polygon)

\* An editor that emits the edited rooms with the total it was given.
EmittedAggregateStaleTotal(meta, updatedRooms) ==
    [meta EXCEPT !.rooms = updatedRooms]

\* onMetadataChange({...metadata, rooms: updatedRooms, total_area_sqft: newTotalSqft})
EmittedAggregate(meta, updatedRooms) ==
    [meta EXCEPT !.rooms = updatedRooms,
                 !.total_area_sqft = TotalSqft(updatedRooms)]

\* An editor that emits an aggregate when the roomId resolves to no room.
DragUpdaterEmitsOnMiss(prevRooms, meta, roomId, vertexIndex, newPos) ==
    LET roomIndex == FindRoomIndex(prevRooms, roomId)
    IN  IF roomIndex = -1
        THEN [found |-> FALSE, throws |-> FALSE, rooms |-> prevRooms,
              emit |-> <<EmittedAggregate(meta, prevRooms)>>]
        ELSE IF UpdaterThrows(prevRooms[roomIndex + 1], vertexIndex, newPos)
        THEN [found |-> TRUE, throws |-> TRUE, rooms |-> prevRooms,
              emit |-> << >>]
        ELSE LET updatedRooms ==
                    [prevRooms EXCEPT ![roomIndex + 1] =
                        EditedRoom(prevRooms[roomIndex + 1], vertexIndex, newPos)]
             IN  [found |-> TRUE, throws |-> FALSE, rooms |-> updatedRooms,
                  emit |-> <<EmittedAggregate(meta, updatedRooms)>>]

\* The updater of handleDragVertex applied to prevRooms.  found = FALSE is the
\* early `return prevRooms`; emit is the sequence of aggregates handed to
\* onMetadataChange (none or one); throws is a TypeError raised inside it.
DragUpdater(prevRooms, meta, roomId, vertexIndex, newPos) ==
    LET roomIndex == FindRoomIndex(prevRooms, roomId)
    IN  IF roomIndex = -1
        THEN [found |-> FALSE, throws |-> FALSE, rooms |-> prevRooms,
              emit |-> << >>]
        ELSE IF UpdaterThrows(prevRooms[roomIndex + 1], vertexIndex, newPos)
        THEN [found |-> TRUE, throws |-> TRUE, rooms |-> prevRooms,
              emit |-> << >>]
        ELSE LET updatedRooms ==
                    [prevRooms EXCEPT ![roomIndex + 1] =
                        EditedRoom(prevRooms[roomIndex + 1], vertexIndex, newPos)]
             IN  [found |-> TRUE, throws |-> FALSE, rooms |-> updatedRooms,
                  emit |-> <<EmittedAggregate(meta, updatedRooms)>>]

(***************************************************************************)
(* Polygon Normalizer: the metadata effect of FloorPlanEditor.             *)
(***************************************************************************)
\* JSON.parse(JSON.stringify(rooms)): a hole of an array comes back as null.
CloneRooms(rs) ==
    [i \in 1..Len(rs) |-> [rs[i] EXCEPT !.polygon = Spread(rs[i].polygon)]]

\* Math.sqrt and the divisions of the fallback are exact on the room data of
\* this model (perfect squares, divisible sides).
ExactSqrt(a) == CHOOSE r \in 0..a : r * r = a
ExactDiv(a, b) == CHOOSE q \in 0..a : q * b = a

\* The width without the guard "if (isNaN(w) || w <= 0) w = 150".
FallbackWidthUnguarded(room) ==
    IF room.hasDims /\ room.width_ft # 0
    THEN room.width_ft * UnitsPerFoot
    ELSE ExactSqrt(IF room.area_sqft > 0 THEN room.area_sqft ELSE DefaultArea)
           * UnitsPerFoot

FallbackWidth(room) ==
    LET safeArea == IF room.area_sqft > 0 THEN room.area_sqft ELSE DefaultArea
        w == IF room.hasDims /\ room.width_ft # 0
             THEN room.width_ft * UnitsPerFoot
             ELSE ExactSqrt(safeArea) * UnitsPerFoot
    IN  IF w <= 0 THEN DefaultSide ELSE w

FallbackLength(room) ==
    LET safeArea == IF room.area_sqft > 0 THEN room.area_sqft ELSE DefaultArea
        w == IF room.hasDims /\ room.width_ft # 0
             THEN room.width_ft * UnitsPerFoot
             ELSE ExactSqrt(safeArea) * UnitsPerFoot
        l == IF room.hasDims /\ room.length_ft # 0
             THEN room.length_ft * UnitsPerFoot
             ELSE ExactDiv(safeArea * UnitsPerFoot * UnitsPerFoot, w)
    IN  IF l <= 0 THEN DefaultSide ELSE l

\* if (!room.polygon || room.polygon.length < 3)
NeedsFallback(room) == Len(room.polygon) < 3

\* A fallback that is the diagonal of the rectangle only.
FallbackPolygonSegment(currentOffset, w, l) ==
    << <<currentOffset, 0>>, <<currentOffset + w, l>> >>

FallbackPolygon(currentOffset, w, l) ==
    << <<currentOffset, 0>>, <<currentOffset + w, 0>>,
       <<currentOffset + w, l>>, <<currentOffset, l>> >>

\* clonedRooms.forEach(...) with the running currentOffset.
RECURSIVE NormalizeFrom(_, _, _)
NormalizeFrom(rs, i, currentOffset) ==
    IF i > Len(rs) THEN << >>
    ELSE IF NeedsFallback(rs[i])
         THEN LET w == FallbackWidth(rs[i])
                  l == FallbackLength(rs[i])
              IN  <<[rs[i] EXCEPT !.polygon = FallbackPolygon(currentOffset, w, l)]>>
                    \o NormalizeFrom(rs, i + 1, currentOffset + w + FallbackGap)
         ELSE <<rs[i]>> \o NormalizeFrom(rs, i + 1, currentOffset)

NormalizeRooms(rs) == NormalizeFrom(CloneRooms(rs), 1, 0)

\* The fallback of a room whose area is any whole number.  Math.sqrt returns
\* the root cut to a multiple of 1 / SqrtScale (exactly, when the area is a perfect
\* square), the sides and the coordinates are rationals.
SqrtScale == 10

RECURSIVE SqrtBetween(_, _, _)
\* The greatest r in lo..hi with r * r <= n.
SqrtBetween(n, lo, hi) ==
    IF lo = hi THEN lo
    ELSE LET mid == (lo + hi + 1) \div 2
         IN  IF mid * mid <= n THEN SqrtBetween(n, mid, hi)
             ELSE SqrtBetween(n, lo, mid - 1)

MathSqrt(a) == Norm(SqrtBetween(a * SqrtScale * SqrtScale, 0, a * SqrtScale),
                    SqrtScale)

\* The sides with the unit ratio left out of l: l = (safeArea / w) * 15.
FallbackSidesNoRatio(room) ==
    LET safeArea == IF room.area_sqft > 0 THEN room.area_sqft ELSE DefaultArea
        w == RMul(MathSqrt(safeArea), Rat(UnitsPerFoot))
    IN  [w |-> w, l |-> RMul(RDiv(Rat(safeArea), w), Rat(UnitsPerFoot))]

\* let w = ..., let l = ... and the two guards.
FallbackSides(room) ==
    LET safeArea == IF room.area_sqft > 0 THEN room.area_sqft ELSE DefaultArea
        w == IF room.hasDims /\ room.width_ft # 0
             THEN Rat(room.width_ft * UnitsPerFoot)
             ELSE RMul(MathSqrt(safeArea), Rat(UnitsPerFoot))
        l == IF room.hasDims /\ room.length_ft # 0
             THEN Rat(room.length_ft * UnitsPerFoot)
             ELSE RMul(RDiv(Rat(safeArea), RDiv(w, Rat(UnitsPerFoot))),
                       Rat(UnitsPerFoot))
    IN  [w |-> IF RLess(Rat(0), w) THEN w ELSE Rat(DefaultSide),
         l |-> IF RLess(Rat(0), l) THEN l ELSE Rat(DefaultSide)]

\* The body of clonedRooms.forEach for one room, given the currentOffset it
\* finds: the polygon the room leaves with.
FallbackOf(room, currentOffset) ==
    IF NeedsFallback(room)
    THEN LET sides == FallbackSides(room)
         IN  << <<currentOffset, Rat(0)>>,
                <<RAdd(currentOffset, sides.w), Rat(0)>>,
                <<RAdd(currentOffset, sides.w), sides.l>>,
                <<currentOffset, sides.l>> >>
    ELSE [k \in 1..Len(room.polygon) |->
             <<Rat(room.polygon[k][1]), Rat(room.polygon[k][2])>>]

(***************************************************************************)
(* Viewport Fitter: the auto-scaling effect of FloorPlanEditor.            *)
(***************************************************************************)
\* Every vertex rooms.forEach / room.polygon.forEach visits (forEach skips
\* holes).
AllVertices(rs) ==
    UNION {{rs[i].polygon[k] : k \in 1..Len(rs[i].polygon)} : i \in 1..Len(rs)}
      \ {Hole}

SetMin(S) == CHOOSE m \in S : \A n \in S : m <= n
SetMax(S) == CHOOSE m \in S : \A n \in S : n <= m

\* contentWidth || 1
OrOne(n) == IF n = 0 THEN 1 ELSE n

Identity == [scale |-> Rat(1), x |-> Rat(0), y |-> Rat(0)]

\* The fit without the cap of Math.min(scaleX, scaleY, 2).
FitTransformUncapped(vs, width, height) ==
    LET minX == SetMin({v[1] : v \in vs})
        maxX == SetMax({v[1] : v \in vs})
        minY == SetMin({v[2] : v \in vs})
        maxY == SetMax({v[2] : v \in vs})
        contentWidth == maxX - minX
        contentHeight == maxY - minY
        scale == RMin(Norm(width - Padding * 2, OrOne(contentWidth)),
                      Norm(height - Padding * 2, OrOne(contentHeight)))
    IN  [scale |-> scale,
         x |-> RSub(RDiv(RSub(Rat(width), RMul(Rat(contentWidth), scale)),
                         Rat(2)),
                    RMul(Rat(minX), scale)),
         y |-> RSub(RDiv(RSub(Rat(height), RMul(Rat(contentHeight), scale)),
                         Rat(2)),
                    RMul(Rat(minY), scale))]

\* The body of the auto-scaling effect once minX !== Infinity.
FitTransform(vs, width, height) ==
    LET minX == SetMin({v[1] : v \in vs})
        maxX == SetMax({v[1] : v \in vs})
        minY == SetMin({v[2] : v \in vs})
        maxY == SetMax({v[2] : v \in vs})
        contentWidth == maxX - minX
        contentHeight == maxY - minY
        scaleX == Norm(width - Padding * 2, OrOne(contentWidth))
        scaleY == Norm(height - Padding * 2, OrOne(contentHeight))
        scale == RMin(RMin(scaleX, scaleY), Rat(MaxScale))
    IN  [scale |-> scale,
         x |-> RSub(RDiv(RSub(Rat(width), RMul(Rat(contentWidth), scale)), Rat(2)),
                    RMul(Rat(minX), scale)),
         y |-> RSub(RDiv(RSub(Rat(height), RMul(Rat(contentHeight), scale)), Rat(2)),
                    RMul(Rat(minY), scale))]

\* The effect without its early return for an empty room list: it fits the
\* origin.
AutoScaleFitsNothing(config, rs, dims) ==
    IF dims.width = 0 THEN config
    ELSE FitTransform(AllVertices(rs) \cup {<<0, 0>>}, dims.width, dims.height)

\* The auto-scaling effect: the stageConfig it leaves, given the one before.
\* It returns early without dimensions.width or rooms, and sets nothing when
\* no vertex was visited.
AutoScale(config, rs, dims) ==
    IF dims.width = 0 \/ Len(rs) = 0 THEN config
    ELSE IF AllVertices(rs) = {} THEN config
    ELSE FitTransform(AllVertices(rs), dims.width, dims.height)

(***************************************************************************)
(* Color resolver: getRoomColor, the same function in FloorPlanEditor and  *)
(* in FloorPlan3D.  A string is the sequence of its characters.            *)
(***************************************************************************)
\* Object.entries(ROOM_COLORS), in the order of the declaration.
ROOM_COLORS ==
    << [key |-> <<"b", "e", "d", "r", "o", "o", "m">>,
        color |-> "#6b8cae"],
       [key |-> <<"b", "a", "t", "h", "r", "o", "o", "m">>,
        color |-> "#7aadba"],
       [key |-> <<"k", "i", "t", "c", "h", "e", "n">>,
        color |-> "#c8956c"],
       [key |-> <<"l", "i", "v", "i", "n", "g">>,
        color |-> "#a3b18a"],
       [key |-> <<"h", "a", "l", "l">>,
        color |-> "#b8a9c9"],
       [key |-> <<"d", "i", "n", "i", "n", "g">>,
        color |-> "#d4a574"],
       [key |-> <<"b", "a", "l", "c", "o", "n", "y">>,
        color |-> "#8fb996"],
       [key |-> <<"c", "o", "r", "r", "i", "d", "o", "r">>,
        color |-> "#9e9e9e"],
       [key |-> <<"d", "e", "f", "a", "u", "l", "t">>,
        color |-> "#888888"] >>

UpperCase ==
    <<"A", "B", "C", "D", "E", "F", "G", "H", "I", "J", "K", "L", "M",
    "N", "O", "P", "Q", "R", "S", "T", "U", "V", "W", "X", "Y", "Z">>
LowerCase ==
    <<"a", "b", "c", "d", "e", "f", "g", "h", "i", "j", "k", "l", "m",
    "n", "o", "p", "q", "r", "s", "t", "u", "v", "w", "x", "y", "z">>

\* The position of a character in a sequence of characters, 0 if it is not
\* in it.
IndexOf(cs, c) ==
    IF \E i \in 1..Len(cs) : cs[i] = c
    THEN CHOOSE i \in 1..Len(cs) : cs[i] = c
    ELSE 0

\* String.prototype.toLowerCase and toUpperCase on letters, digits and blanks.
toLowerCase(str) ==
    [i \in 1..Len(str) |->
        IF IndexOf(UpperCase, str[i]) # 0
        THEN LowerCase[IndexOf(UpperCase, str[i])] ELSE str[i]]
toUpperCase(str) ==
    [i \in 1..Len(str) |->
        IF IndexOf(LowerCase, str[i]) # 0
        THEN UpperCase[IndexOf(LowerCase, str[i])] ELSE str[i]]

\* String.prototype.includes
Includes(str, key) ==
    \E k \in 0..(Len(str) - Len(key)) : SubSeq(str, k + 1, k + Len(key)) = key

\* for (const [key, color] of Object.entries(ROOM_COLORS)) from entry i on,
\* and the return after the loop.
RECURSIVE FirstMatch(_, _)
FirstMatch(lower, i) ==
    IF i > Len(ROOM_COLORS) THEN ROOM_COLORS[Len(ROOM_COLORS)].color
    ELSE IF Includes(lower, ROOM_COLORS[i].key) THEN ROOM_COLORS[i].color
    ELSE FirstMatch(lower, i + 1)

\* The function without toLowerCase.
getRoomColorCaseSensitive(type) == FirstMatch(type, 1)

getRoomColor(type) == FirstMatch(toLowerCase(type), 1)

(***************************************************************************)
(* 3D Projector: where FloorPlan3D puts the shell of a room.               *)
(***************************************************************************)
\* const floorIndex = room.floor ? room.floor - 1 : 0;
FloorIndex(room) == IF room.floor # 0 THEN room.floor - 1 ELSE 0

\* roomOffset.y = floorIndex * wallHeight: the vertical component of the
\* offset FloorPlan3D hands to <Room>.
RoomOffsetY(room) == FloorIndex(room) * wallHeight

\* <group position={[offset.x, 0, offset.z]}>: the vertical position of the
\* group that holds the floor base and the extruded walls of the room.
GroupPositionY(offsetY) == 0

\* The vertical position of the rendered shell of a room.
ShellY(room) == GroupPositionY(RoomOffsetY(room))

\* createRoomShape, the fallback rectangle: room.dimensions?.width_ft ||
\* Math.sqrt(room.area_sqft) and room.dimensions?.length_ft ||
\* room.area_sqft / width.
ShapeWidth(room) ==
    IF room.hasDims /\ room.width_ft # 0 THEN Rat(room.width_ft)
    ELSE MathSqrt(room.area_sqft)

ShapeLength(room) ==
    IF room.hasDims /\ room.length_ft # 0 THEN Rat(room.length_ft)
    ELSE RDiv(Rat(room.area_sqft), ShapeWidth(room))

\* room.polygon && room.polygon.length > 0
HasPolygon(room) == Len(room.polygon) > 0

\* The grid of FloorPlan3D for rooms without polygon data.
GridCols == 3
GridGap == 2
GridOrigin == -15

\* The offset of the whole layout, <<x, z>>.  With polygon data it is the
\* centre of the bounding box of the polygons scaled by 0.05, y flipped to z.
LayoutOffset(rs) ==
    IF \E i \in 1..Len(rs) : HasPolygon(rs[i])
    THEN LET xs == {v[1] : v \in AllVertices(rs)}
             ys == {v[2] : v \in AllVertices(rs)}
         IN  <<Norm(-(SetMin(xs) + SetMax(xs)), 40),
               Norm(SetMin(ys) + SetMax(ys), 40)>>
    ELSE <<Rat(GridOrigin), Rat(GridOrigin)>>

\* roomOffset of rs[i + 1] (i counts from 0), <<x, z>>.
GridOffset(rs, i) ==
    LET room == rs[i + 1]
        row == i \div GridCols
        col == i % GridCols
        offset == LayoutOffset(rs)
    IN  IF ~HasPolygon(room)
        THEN <<RAdd(offset[1],
                    RMul(Rat(col), RAdd(ShapeWidth(room), Rat(GridGap)))),
               RAdd(offset[2],
                    RMul(Rat(row), RAdd(ShapeLength(room), Rat(GridGap))))>>
        ELSE offset

\* The ground the fallback rectangle of rs[i + 1] covers: the shape
\* (0, 0) .. (width, length) turned by -PI/2 about the x axis (y goes to -z)
\* in a group at the roomOffset.
Footprint(rs, i) ==
    LET at == GridOffset(rs, i)
    IN  [minX |-> at[1], maxX |-> RAdd(at[1], ShapeWidth(rs[i + 1])),
         minZ |-> RSub(at[2], ShapeLength(rs[i + 1])), maxZ |-> at[2]]

(***************************************************************************)
(* The data a behaviour starts from and the inputs of its events.          *)
(***************************************************************************)
Square == << <<0, 0>>, <<30, 0>>, <<30, 30>>, <<0, 30>> >>
Triangle == << <<40, 30>>, <<30, 0>>, <<60, 0>> >>
Corner == << <<0, 0>>, <<30, 0>>, <<0, 30>> >>

Bedroom == Room(FALSE, 0, "Master Bedroom", Square, 100, TRUE, 10, 10, 1)
Bathroom == Room(FALSE, 0, "bathroom", << >>, 80, TRUE, 10, 8, 1)
Study == Room(FALSE, 0, "study", << >>, 16, FALSE, 0, 0, 2)
Closet == Room(FALSE, 0, "closet", Corner, 8, FALSE, 0, 0, 1)
Hall == Room(TRUE, 1, "hall", Triangle, 40, FALSE, 0, 0, 2)

\* Rooms that need a fallback for other reasons: a polygon of two points and
\* no area, a width below zero.
Nook == Room(FALSE, 0, "nook", << <<5, 5>>, <<9, 9>> >>, 0, FALSE, 0, 0, 1)
Annex == Room(FALSE, 0, "annex", << >>, 36, TRUE, -4, 6, 1)

\* The aggregates the inference pipeline may deliver (initialMetadata).  The
\* first one carries a total that is not the sum of its rooms.
Upstreams ==
    { Aggregate(999, <<Hall, Bedroom>>, 1, 0),
      Aggregate(96, <<Bathroom, Study>>, 0, 1),
      Aggregate(8, <<Closet>>, 0, 0),
      Aggregate(0, << >>, 0, 0) }

\* Arguments of handleDragVertex.
RoomIds == {0, 1}
\* <<vertexIndex, newPos>>: an index below 0, the first vertex moved to the
\* origin or out of the bounding box, the index 3 (the last vertex of a
\* square, one past the end of a triangle), an index well past the end.
DragInputs ==
    { <<-1, <<0, 0>>>>, <<0, <<0, 0>>>>, <<0, <<90, 30>>>>,
      <<3, <<90, 30>>>>, <<5, <<0, 0>>>> }
\* containerRef.current.offsetWidth
Widths == {400, 60}
Views == {"2d", "edit", "3d"}

(***************************************************************************)
(* State.                                                                  *)
(***************************************************************************)
VARIABLES
    upstream,        \* FloorPlanViewer: the metadata prop (initialMetadata)
    readOnly,        \* FloorPlanViewer: the readOnly prop
    view,            \* FloorPlanViewer: useState view
    metadata,        \* FloorPlanViewer: useState metadata
    propMeta,        \* FloorPlanEditor: the metadata prop of the committed render
    rooms,           \* FloorPlanEditor: useState rooms, every setRooms applied
    rendRooms,       \* FloorPlanEditor: rooms of the committed render
    dimensions,      \* FloorPlanEditor: useState dimensions
    rendDims,        \* FloorPlanEditor: dimensions of the committed render
    containerWidth,  \* offsetWidth of the editor's container
    stageConfig,     \* FloorPlanEditor: useState stageConfig
    dirty,           \* which of rooms / dimensions / metadata were set since the commit
    pendingEffects,  \* passive effects of the commit that have not run yet
    listening,       \* whether the resize listener is installed
    crashed,         \* a TypeError left the component tree
    nEvents,         \* drag and resize events so far
    nEmits,          \* onMetadataChange calls so far
    lastDrag,        \* history: the last handleDragVertex call of the mounted
                     \* editor (how it ended, the room it resolved, the
                     \* stageConfig it found)
    folded,          \* history: the room list the editor loaded when it was
                     \* mounted with every drag since applied to it in order
    args,            \* the arguments of a call of one of the pure functions
                     \* (the normalizer, the viewport fitter,
                     \* calculatePolygonArea, getRoomColor) examined on its own
    returned,        \* what that call returned, NoCall before it has run
    serverStatus,    \* backend: the status of the job
    job,             \* JobPage: data of useJobStatus (the status last observed)
    statusFetching,  \* JobPage: a getJobStatus request is in flight
    pollTimer,       \* JobPage: the delay of the refetch interval, 0 without one
    resultQuery,     \* JobPage: the state of the useJobResult query
    entries,         \* useHistoryStore: entries
    storage,         \* localStorage: the entries saved under STORAGE_KEY
    nStoreEvents     \* calls of addEntry, removeEntry, clearHistory so far

vars == <<upstream, readOnly, view, metadata, propMeta, rooms, rendRooms,
          dimensions, rendDims, containerWidth, stageConfig, dirty,
          pendingEffects, listening, crashed, nEvents, nEmits, lastDrag,
          folded, args, returned, serverStatus, job, statusFetching,
          pollTimer, resultQuery, entries, storage, nStoreEvents>>

jobVars == <<serverStatus, job, statusFetching, pollTimer, resultQuery>>
historyVars == <<entries, storage, nStoreEvents>>

\* No job page is open.
NoJobPage ==
    /\ serverStatus = "pending"
    /\ job = "unknown"
    /\ statusFetching = FALSE
    /\ pollTimer = 0
    /\ resultQuery = "disabled"

\* The history is empty and is not used.
NoHistory ==
    /\ entries = << >>
    /\ storage = << >>
    /\ nStoreEvents = 0

\* No pure function is examined on its own, or its call has not returned.
NoCall == [done |-> FALSE]

NoDimensions == [width |-> 0, height |-> 0]

NoDrag == [outcome |-> "none", roomIndex |-> -1, inRange |-> FALSE,
           samePos |-> FALSE, fit |-> Identity, quiet |-> FALSE]

\* The useState initial values of FloorPlanEditor.
EditorInitial ==
    /\ rooms' = << >>
    /\ rendRooms' = << >>
    /\ dimensions' = NoDimensions
    /\ rendDims' = NoDimensions
    /\ stageConfig' = Identity
    /\ dirty' = {}
    /\ listening' = FALSE

Init ==
    /\ upstream \in Upstreams
    /\ readOnly \in BOOLEAN
    /\ view = "2d"
    /\ metadata = upstream
    /\ propMeta = upstream
    /\ rooms = << >>
    /\ rendRooms = << >>
    /\ dimensions = NoDimensions
    /\ rendDims = NoDimensions
    /\ containerWidth = SetMax(Widths)
    /\ stageConfig = Identity
    /\ dirty = {}
    /\ pendingEffects = {}
    /\ listening = FALSE
    /\ crashed = FALSE
    /\ nEvents = 0
    /\ nEmits = 0
    /\ lastDrag = NoDrag
    /\ folded = << >>
    /\ args = NoCall
    /\ returned = NoCall
    /\ NoJobPage
    /\ NoHistory

(***************************************************************************)
(* Operations.                                                             *)
(***************************************************************************)
\* The view toggle with an EDIT PLAN button in a read-only viewer too.
SetViewUnguarded(v) ==
    /\ ~crashed
    /\ v # view
    /\ view' = v
    /\ EditorInitial
    /\ propMeta' = metadata
    /\ pendingEffects' = IF v = "edit" THEN {"metadata", "fit"} ELSE {}
    /\ lastDrag' = NoDrag
    /\ folded' = << >>
    /\ UNCHANGED <<upstream, readOnly, metadata, containerWidth, crashed,
                   nEvents, nEmits, args, returned, jobVars, historyVars>>

\* FloorPlanViewer: the view toggle.  The EDIT PLAN button exists only when
\* readOnly is false.  Entering "edit" mounts a FloorPlanEditor (its first
\* commit leaves both effects to run); leaving it unmounts the editor.
SetView(v) ==
    /\ ~crashed
    /\ v # view
    /\ v = "edit" => ~readOnly
    /\ view' = v
    /\ EditorInitial
    /\ propMeta' = metadata
    /\ pendingEffects' = IF v = "edit" THEN {"metadata", "fit"} ELSE {}
    /\ lastDrag' = NoDrag
    /\ folded' = << >>
    /\ UNCHANGED <<upstream, readOnly, metadata, containerWidth, crashed,
                   nEvents, nEmits, args, returned, jobVars, historyVars>>

\* The anchors that call handleDragVertex exist once the Stage is rendered
\* (dimensions.width of the committed render is not 0).
DragEnabled ==
    /\ ~crashed
    /\ view = "edit"
    /\ rendDims.width # 0
    /\ nEvents < MaxEvents

\* vertexIndex names an element of the polygon.
InRange(polygon, vertexIndex) ==
    vertexIndex >= 0 /\ vertexIndex < Len(polygon)

\* What lastDrag keeps of a call: res is what the updater returned for it.
DragRecord(roomId, vertexIndex, newPos, res) ==
    LET roomIndex == FindRoomIndex(rooms, roomId)
        inRange == /\ roomIndex # -1
                   /\ InRange(rooms[roomIndex + 1].polygon, vertexIndex)
    IN  [outcome |-> IF res.throws THEN "throw"
                     ELSE IF res.found THEN "edit" ELSE "miss",
         roomIndex |-> roomIndex,
         inRange |-> inRange,
         samePos |-> inRange
                       /\ rooms[roomIndex + 1].polygon[vertexIndex + 1] = newPos,
         fit |-> stageConfig,
         quiet |-> dirty = {} /\ pendingEffects = {}]

\* FloorPlanEditor: handleDragVertex(roomId, vertexIndex, e) with
\* e.target.position() = newPos.
HandleDragVertex(roomId, vertexIndex, newPos) ==
    /\ DragEnabled
    /\ nEvents' = nEvents + 1
    /\ \E res \in {DragUpdater(rooms, propMeta, roomId, vertexIndex, newPos)} :
        /\ lastDrag' = DragRecord(roomId, vertexIndex, newPos, res)
        /\ IF res.throws
           THEN /\ crashed' = TRUE
                /\ UNCHANGED <<rooms, metadata, dirty, nEmits>>
           ELSE IF ~res.found
           THEN UNCHANGED <<rooms, metadata, dirty, nEmits, crashed>>
           ELSE /\ rooms' = res.rooms
                /\ metadata' = res.emit[1]
                /\ dirty' = dirty \cup {"rooms", "metadata"}
                /\ nEmits' = nEmits + 1
                /\ UNCHANGED crashed
    /\ \E fold \in {DragUpdater(folded, propMeta, roomId, vertexIndex, newPos)} :
        folded' = IF fold.throws THEN folded ELSE fold.rooms
    /\ UNCHANGED <<upstream, readOnly, view, propMeta, rendRooms, dimensions,
                   rendDims, containerWidth, stageConfig, pendingEffects,
                   listening, args, returned, jobVars, historyVars>>

\* A render of the editor and its commit.  React runs the passive effects of
\* the previous commit before it renders again.  Rendering the Stage reads
\* point[0] of every polygon element (room.polygon.reduce).
Render ==
    /\ ~crashed
    /\ view = "edit"
    /\ pendingEffects = {}
    /\ dirty # {}
    /\ IF dimensions.width # 0
          /\ \E i \in 1..Len(rooms) : ReduceThrows(rooms[i].polygon)
       THEN /\ crashed' = TRUE
            /\ UNCHANGED <<propMeta, rendRooms, rendDims, dirty, pendingEffects>>
       ELSE /\ rendRooms' = rooms
            /\ rendDims' = dimensions
            /\ propMeta' = metadata
            /\ pendingEffects' =
                   (IF "metadata" \in dirty THEN {"metadata"} ELSE {})
                     \cup (IF dirty \cap {"rooms", "dimensions"} # {}
                           THEN {"fit"} ELSE {})
            /\ dirty' = {}
            /\ UNCHANGED crashed
    /\ UNCHANGED <<upstream, readOnly, view, metadata, rooms, dimensions,
                   containerWidth, stageConfig, listening, nEvents, nEmits,
                   lastDrag, folded, args, returned, jobVars, historyVars>>

\* The passive effects of the last commit, in the order of their useEffect
\* calls: the [metadata] effect (clone, fallback polygons, setRooms,
\* setDimensions, resize listener), then the [rooms, dimensions] effect
\* (auto-scaling).  Each reads the values of the committed render.
FlushEffects ==
    /\ ~crashed
    /\ view = "edit"
    /\ pendingEffects # {}
    /\ IF "metadata" \in pendingEffects
       THEN /\ rooms' = NormalizeRooms(propMeta.rooms)
            /\ dimensions' = [width |-> containerWidth, height |-> StageHeight]
            /\ dirty' = dirty \cup {"rooms", "dimensions"}
            /\ listening' = TRUE
            /\ folded' = IF listening THEN folded
                          ELSE NormalizeRooms(propMeta.rooms)
       ELSE UNCHANGED <<rooms, dimensions, dirty, listening, folded>>
    /\ stageConfig' = IF "fit" \in pendingEffects
                      THEN AutoScale(stageConfig, rendRooms, rendDims)
                      ELSE stageConfig
    /\ pendingEffects' = {}
    /\ UNCHANGED <<upstream, readOnly, view, metadata, propMeta, rendRooms,
                   rendDims, containerWidth, crashed, nEvents, nEmits,
                   lastDrag, args, returned, jobVars, historyVars>>

\* The window is resized: the container gets another width and the listener
\* the [metadata] effect installed, if any, calls setDimensions.
Resize(w) ==
    /\ ~crashed
    /\ w # containerWidth
    /\ nEvents < MaxEvents
    /\ nEvents' = nEvents + 1
    /\ containerWidth' = w
    /\ IF listening
       THEN /\ dimensions' = [width |-> w, height |-> StageHeight]
            /\ dirty' = dirty \cup {"dimensions"}
       ELSE UNCHANGED <<dimensions, dirty>>
    /\ lastDrag' = [lastDrag EXCEPT !.quiet = FALSE]
    /\ UNCHANGED <<upstream, readOnly, view, metadata, propMeta, rooms,
                   rendRooms, rendDims, stageConfig, pendingEffects, listening,
                   crashed, nEmits, folded, args, returned, jobVars, historyVars>>

Next ==
    \/ \E v \in Views : SetView(v)
    \/ \E roomId \in RoomIds, input \in DragInputs :
            HandleDragVertex(roomId, input[1], input[2])
    \/ Render
    \/ FlushEffects
    \/ \E w \in Widths : Resize(w)

Spec == Init /\ [][Next]_vars

(***************************************************************************)
(* The pure functions, each examined on its own: a behaviour draws the     *)
(* arguments of one call, and its only step is the call.  The editor stays *)
(* unmounted meanwhile.                                                    *)
(***************************************************************************)
editorVars == <<upstream, readOnly, view, metadata, propMeta, rooms, rendRooms,
                dimensions, rendDims, containerWidth, stageConfig, dirty,
                pendingEffects, listening, crashed, nEvents, nEmits, lastDrag,
                folded>>

EditorUnmounted ==
    /\ upstream = Aggregate(0, << >>, 0, 0)
    /\ readOnly = TRUE
    /\ view = "2d"
    /\ metadata = upstream
    /\ propMeta = upstream
    /\ rooms = << >>
    /\ rendRooms = << >>
    /\ dimensions = NoDimensions
    /\ rendDims = NoDimensions
    /\ containerWidth = SetMax(Widths)
    /\ stageConfig = Identity
    /\ dirty = {}
    /\ pendingEffects = {}
    /\ listening = FALSE
    /\ crashed = FALSE
    /\ nEvents = 0
    /\ nEmits = 0
    /\ lastDrag = NoDrag
    /\ folded = << >>

\* What a call returned.
Returned(value) == [done |-> TRUE, value |-> value]

\* The sequences over S of length n at most.
SeqsUpTo(S, n) == UNION {[1..k -> S] : k \in 0..n}

\* The normalizer on a room list (metadata.rooms of the [metadata] effect).
MaxRooms == 3
NormalizerRooms == {Bedroom, Hall, Bathroom, Study, Nook, Annex}

NormalizerInit ==
    /\ EditorUnmounted
    /\ NoJobPage
    /\ NoHistory
    /\ args \in SeqsUpTo(NormalizerRooms, MaxRooms)
    /\ returned = NoCall

Normalize ==
    /\ ~returned.done
    /\ returned' = Returned(NormalizeRooms(args))
    /\ UNCHANGED <<editorVars, args, jobVars, historyVars>>

NormalizerNext == Normalize

NormalizerSpec == NormalizerInit /\ [][NormalizerNext]_vars

\* The normalizer on one room that comes without dimensions and with fewer
\* than 3 points: its area_sqft, its polygon and the currentOffset it finds.
MaxArea == 30
ShortPolygons == {<< >>, << <<5, 5>> >>, << <<5, 5>>, <<9, 9>> >>}
Offsets == {Rat(0), Rat(170), <<343, 2>>}

FallbackInit ==
    /\ EditorUnmounted
    /\ NoJobPage
    /\ NoHistory
    /\ args \in [room : {Room(FALSE, 0, "room", polygon, area, FALSE, 0, 0, 0) :
                             polygon \in ShortPolygons, area \in 1..MaxArea},
                  currentOffset : Offsets]
    /\ returned = NoCall

Fallback ==
    /\ ~returned.done
    /\ returned' = Returned(FallbackOf(args.room, args.currentOffset))
    /\ UNCHANGED <<editorVars, args, jobVars, historyVars>>

FallbackNext == Fallback

FallbackSpec == FallbackInit /\ [][FallbackNext]_vars

\* The auto-scaling effect on the rooms and the dimensions of one render,
\* starting from the stageConfig of a fresh editor.  The polygons: a square
\* and a triangle that fit many times over, a 200 x 100 rectangle, a polygon
\* away from the origin that has to shrink, polygons without width or
\* without any extent.  The viewports: the widths a container may have, down
\* to widths that leave nothing between the paddings, with the height the
\* editor sets and the height of a square viewport.
MaxFitRooms == 2
Wide == << <<0, 0>>, <<200, 0>>, <<200, 100>>, <<0, 100>> >>
Far == << <<1000, 1000>>, <<1300, 1000>>, <<1300, 1900>> >>
Post == << <<7, 0>>, <<7, 50>>, <<7, 90>> >>
Dot == << <<7, 7>>, <<7, 7>>, <<7, 7>> >>
FitPolygons == {Square, Triangle, Wide, Far, Post, Dot}
FitWidths == {400, 120, 80, 60}
FitHeights == {StageHeight, 400}

FitInit ==
    /\ EditorUnmounted
    /\ NoJobPage
    /\ NoHistory
    /\ args \in [rooms : SeqsUpTo({Room(FALSE, 0, "room", polygon, 100, FALSE,
                                          0, 0, 0) : polygon \in FitPolygons},
                                    MaxFitRooms),
                  dimensions : [width : FitWidths, height : FitHeights]]
    /\ returned = NoCall

Fit ==
    /\ ~returned.done
    /\ returned' = Returned(AutoScale(Identity, args.rooms, args.dimensions))
    /\ UNCHANGED <<editorVars, args, jobVars, historyVars>>

FitNext == Fit

FitSpec == FitInit /\ [][FitNext]_vars

\* calculatePolygonArea on the flattened points of a polygon.  The polygons:
\* every sequence of MaxPoints points at most on a grid (the empty one, the
\* single points, the pairs, the collinear ones among them), and the
\* rectangles and L-shaped polygons with sides along the axes, from every
\* starting corner and in both directions.
MaxPoints == 4
MaxSide == 4
GridPoints == (0..2) \X (0..2)
Corners == (0..1) \X (0..1)

Rectangle(x, y, w, h) ==
    << <<x, y>>, <<x + w, y>>, <<x + w, y + h>>, <<x, y + h>> >>

\* A w x h rectangle without the (w - a) x (h - b) rectangle of its far corner.
LShape(x, y, w, h, a, b) ==
    << <<x, y>>, <<x + w, y>>, <<x + w, y + b>>, <<x + a, y + b>>,
       <<x + a, y + h>>, <<x, y + h>> >>

\* The polygon from its vertex k + 1 on, and the polygon walked backwards.
Rotated(polygon, k) ==
    [i \in 1..Len(polygon) |-> polygon[((i + k - 1) % Len(polygon)) + 1]]
Reversed(polygon) ==
    [i \in 1..Len(polygon) |-> polygon[Len(polygon) + 1 - i]]

AxisAlignedPolygons ==
    LET base == {Rectangle(c[1], c[2], w, h) :
                     c \in Corners, w \in 1..MaxSide, h \in 1..MaxSide}
                  \cup {LShape(0, 0, q[1], q[2], q[3], q[4]) :
                            q \in {r \in (2..MaxSide) \X (2..MaxSide)
                                          \X (1..MaxSide) \X (1..MaxSide) :
                                      r[3] < r[1] /\ r[4] < r[2]}}
        turned == UNION {{Rotated(p, k) : k \in 0..(Len(p) - 1)} : p \in base}
    IN  turned \cup {Reversed(p) : p \in turned}

AreaInit ==
    /\ EditorUnmounted
    /\ NoJobPage
    /\ NoHistory
    /\ args \in SeqsUpTo(GridPoints, MaxPoints) \cup AxisAlignedPolygons
    /\ returned = NoCall

Area ==
    /\ ~returned.done
    /\ returned' = Returned(calculatePolygonArea(Flatten(
                        [k \in 1..Len(args) |->
                            <<Rat(args[k][1]), Rat(args[k][2])>>])))
    /\ UNCHANGED <<editorVars, args, jobVars, historyVars>>

AreaNext == Area

AreaSpec == AreaInit /\ [][AreaNext]_vars

\* getRoomColor on a room type: MaxWords words at most, one after the
\* other, each in lower case, in upper case or with a capital.
MaxWords == 2
Words ==
    { <<"b", "e", "d", "r", "o", "o", "m">>,
      <<"b", "a", "t", "h", "r", "o", "o", "m">>,
      <<"k", "i", "t", "c", "h", "e", "n">>,
      <<"l", "i", "v", "i", "n", "g">>,
      <<"h", "a", "l", "l">>,
      <<"d", "i", "n", "i", "n", "g">>,
      <<"d", "e", "f", "a", "u", "l", "t">>,
      <<"s", "t", "u", "d", "y">>,
      <<" ">> }

Capitalized(word) == <<toUpperCase(word)[1]>> \o Tail(word)

Tokens == Words \cup {toUpperCase(w) : w \in Words}
                \cup {Capitalized(w) : w \in Words}

RECURSIVE Concat(_)
Concat(ws) == IF ws = << >> THEN << >> ELSE Head(ws) \o Concat(Tail(ws))

ColorInit ==
    /\ EditorUnmounted
    /\ NoJobPage
    /\ NoHistory
    /\ args \in {Concat(ws) : ws \in SeqsUpTo(Tokens, MaxWords)}
    /\ returned = NoCall

Color ==
    /\ ~returned.done
    /\ returned' = Returned(getRoomColor(args))
    /\ UNCHANGED <<editorVars, args, jobVars, historyVars>>

ColorNext == Color

ColorSpec == ColorInit /\ [][ColorNext]_vars

\* The edit of one room: the body of the updater from newRoom on, for a
\* room that was found.  The polygons have a large, a small or no area; the
\* vertex is one of the polygon or the one after its last.
EditPolygons == {Square, Triangle, Corner, Wide, Dot}
EditAreas == {0, 8, 10, 11, 40, 100}
EditIndexes == 0..3
EditPositions == {0, 7, 30, 45, 90} \X {0, 7, 30, 45, 90}

EditInit ==
    /\ EditorUnmounted
    /\ NoJobPage
    /\ NoHistory
    /\ args \in [room : {Room(FALSE, 0, "room", polygon, area, FALSE, 0, 0, 0) :
                             polygon \in EditPolygons, area \in EditAreas},
                  vertexIndex : EditIndexes,
                  newPos : EditPositions]
    /\ returned = NoCall

Edit ==
    /\ ~returned.done
    /\ returned' = Returned(EditedRoom(args.room, args.vertexIndex, args.newPos))
    /\ UNCHANGED <<editorVars, args, jobVars, historyVars>>

EditNext == Edit

EditSpec == EditInit /\ [][EditNext]_vars

\* A drag of an anchor: the renderer draws the anchors of rooms[i] with
\* roomId = room.id || i and hands that roomId to handleDragVertex.
RenderedId(room, i) == IF room.hasId /\ room.id # 0 THEN room.id ELSE i

Lobby == Room(TRUE, 2, "lobby", Square, 100, FALSE, 0, 0, 1)
Porch == Room(TRUE, 0, "porch", Corner, 40, FALSE, 0, 0, 1)
\* Rooms the renderer draws (their polygons have three points or more).
AnchorRooms == {Bedroom, Closet, Hall, Lobby, Porch}
MaxAnchorRooms == 3
AnchorLists ==
    {rs \in SeqsUpTo(AnchorRooms, MaxAnchorRooms) :
        Len(rs) > 0 /\ \A i, j \in 1..Len(rs) : rs[i] = rs[j] => i = j}

AnchorInit ==
    /\ EditorUnmounted
    /\ NoJobPage
    /\ NoHistory
    /\ \E rs \in AnchorLists, i \in 0..(MaxAnchorRooms - 1),
          input \in {<<0, <<7, 7>>>>, <<2, <<90, 30>>>>} :
            /\ i < Len(rs)
            /\ args = [rooms |-> rs, i |-> i, vertexIndex |-> input[1],
                       newPos |-> input[2]]
    /\ returned = NoCall

DragAnchor ==
    /\ ~returned.done
    /\ returned' =
           Returned(DragUpdater(args.rooms,
                                Aggregate(TotalSqft(args.rooms), args.rooms, 0, 0),
                                RenderedId(args.rooms[args.i + 1], args.i),
                                args.vertexIndex, args.newPos))
    /\ UNCHANGED <<editorVars, args, jobVars, historyVars>>

AnchorNext == DragAnchor

AnchorSpec == AnchorInit /\ [][AnchorNext]_vars

\* The grid of the 3D projection on a room list: rooms of one floor without
\* polygon data, with dimensions or with an area only.
Pantry == Room(FALSE, 0, "pantry", << >>, 16, FALSE, 0, 0, 1)
Den == Room(FALSE, 0, "den", << >>, 144, TRUE, 12, 12, 1)
GridRooms == {Bathroom, Pantry, Den, Bedroom}
MaxGridRooms == 4

GridInit ==
    /\ EditorUnmounted
    /\ NoJobPage
    /\ NoHistory
    /\ args \in SeqsUpTo(GridRooms, MaxGridRooms)
    /\ returned = NoCall

PlaceRooms ==
    /\ ~returned.done
    /\ returned' = Returned([i \in 1..Len(args) |-> Footprint(args, i - 1)])
    /\ UNCHANGED <<editorVars, args, jobVars, historyVars>>

GridNext == PlaceRooms

GridSpec == GridInit /\ [][GridNext]_vars

(***************************************************************************)
(* History store (useHistoryStore).  An entry is its jobId and its         *)
(* imageUrl; the storage holds the list saveToStorage wrote last.          *)
(***************************************************************************)
\* [entry, ...current].slice(0, 50)
MaxEntries == 50

Entry(jobId, imageUrl) == [jobId |-> jobId, imageUrl |-> imageUrl]

\* current.some(e => e.jobId === entry.jobId)
HasJob(es, jobId) == \E i \in 1..Len(es) : es[i].jobId = jobId

\* The last n elements in the place of the first n.
SliceLast(es, n) == SubSeq(es, IF Len(es) < n THEN 1 ELSE Len(es) - n + 1, Len(es))

\* Array.prototype.slice(0, n)
Slice(es, n) == SubSeq(es, 1, IF Len(es) < n THEN Len(es) ELSE n)

\* addEntry without the check for duplicates.
AddEntryUnchecked(entry, saved) ==
    \E updated \in {Slice(<<entry>> \o entries, MaxEntries)} :
        /\ entries' = updated
        /\ storage' = IF saved THEN updated ELSE storage

\* addEntry(entry); saved tells whether localStorage.setItem went through
\* (saveToStorage swallows its failure).
AddEntry(entry, saved) ==
    IF HasJob(entries, entry.jobId)
    THEN UNCHANGED <<entries, storage>>
    ELSE \E updated \in {Slice(<<entry>> \o entries, MaxEntries)} :
            /\ entries' = updated
            /\ storage' = IF saved THEN updated ELSE storage

\* entries.filter(e => e.jobId !== jobId)
Without(es, jobId) == SelectSeq(es, LAMBDA en : en.jobId # jobId)

\* removeEntry(jobId)
RemoveEntry(jobId, saved) ==
    \E updated \in {Without(entries, jobId)} :
        /\ entries' = updated
        /\ storage' = IF saved THEN updated ELSE storage

\* clearHistory()
ClearHistory(saved) ==
    /\ entries' = << >>
    /\ storage' = IF saved THEN << >> ELSE storage

(***************************************************************************)
(* Job page (JobPage): useJobStatus polls the status of a job,             *)
(* useJobResult fetches its result, an effect adds the result to the       *)
(* history.  The QueryClient has its default options.                      *)
(***************************************************************************)
\* return 2000; // Poll every 2 seconds
PollInterval == 2000

Statuses == {"pending", "processing", "completed", "failed"}

\* An interval that is never cleared.
RefetchIntervalForever(data) == PollInterval

\* refetchInterval: (query) => ..., 0 standing for false.
RefetchInterval(data) ==
    IF data = "completed" \/ data = "failed" THEN 0 ELSE PollInterval

\* useJobResult(jobId) with its default enabled = true.
ResultEnabledAlways(data) == TRUE

\* enabled && !!jobId of useJobResult, as JobPage calls it.
ResultEnabled(data) == data = "completed"

\* params.jobId, and what the result of the job carries.
PageJobId == 1
ResultImage == "plan.png"

\* The histories the page may find.
InitialHistories ==
    { << >>, <<Entry(2, "other.png")>>, <<Entry(PageJobId, "old.png")>>,
      <<Entry(2, "other.png"), Entry(PageJobId, "old.png")>> }

\* The page is mounted: the status query starts its first fetch and its
\* refetch interval, the result query is enabled or not.
JobInit ==
    /\ EditorUnmounted
    /\ args = NoCall
    /\ returned = NoCall
    /\ serverStatus \in Statuses
    /\ job = "unknown"
    /\ statusFetching = TRUE
    /\ pollTimer = RefetchInterval("unknown")
    /\ resultQuery = IF ResultEnabled("unknown") THEN "fetching" ELSE "disabled"
    /\ entries \in InitialHistories
    /\ storage = entries
    /\ nStoreEvents = 0

\* The backend works on the job.
ServerProgress ==
    /\ \/ serverStatus = "pending" /\ serverStatus' \in {"processing", "failed"}
       \/ serverStatus = "processing"
            /\ serverStatus' \in {"completed", "failed"}
    /\ UNCHANGED <<editorVars, args, returned, job, statusFetching, pollTimer,
                   resultQuery, historyVars>>

\* The refetch interval fires: a fetch starts unless one is in flight.
PollTick ==
    /\ pollTimer # 0
    /\ ~statusFetching
    /\ statusFetching' = TRUE
    /\ UNCHANGED <<editorVars, args, returned, serverStatus, job, pollTimer,
                   resultQuery, historyVars>>

\* getJobStatus returns (ok) or fails for good; the observer sets its
\* interval anew and JobPage renders, which may enable the result query.
StatusResponse(ok) ==
    /\ statusFetching
    /\ statusFetching' = FALSE
    /\ job' = IF ok THEN serverStatus ELSE job
    /\ pollTimer' = RefetchInterval(job')
    /\ resultQuery' = IF resultQuery = "disabled" /\ ResultEnabled(job')
                      THEN "fetching" ELSE resultQuery
    /\ UNCHANGED <<editorVars, args, returned, serverStatus, historyVars>>

\* getJobResult returns (ok) or fails; retry: 1 gives it a second attempt.
\* With the result JobPage renders and its effect calls addEntry.
ResultResponse(ok, saved) ==
    /\ resultQuery \in {"fetching", "retrying"}
    /\ IF ok
       THEN /\ resultQuery' = "success"
            /\ AddEntry(Entry(PageJobId, ResultImage), saved)
       ELSE /\ resultQuery' = IF resultQuery = "fetching" THEN "retrying"
                              ELSE "error"
            /\ UNCHANGED <<entries, storage>>
    /\ UNCHANGED <<editorVars, args, returned, serverStatus, job,
                   statusFetching, pollTimer, nStoreEvents>>

JobNext ==
    \/ ServerProgress
    \/ PollTick
    \/ \E ok \in BOOLEAN : StatusResponse(ok)
    \/ \E ok, saved \in BOOLEAN : ResultResponse(ok, saved)

JobSpec == JobInit /\ [][JobNext]_vars

\* The timers of the browser fire and the requests come to an end.
JobLiveSpec ==
    /\ JobInit /\ [][JobNext]_vars
    /\ WF_vars(PollTick)
    /\ WF_vars(\E ok \in BOOLEAN : StatusResponse(ok))

\* The store on its own.  It starts from what loadFromStorage finds: nothing,
\* or a list an earlier session saved, the newest job first.  args keeps the
\* last call and the entries and the storage it found.
MaxStoreEvents == 3
StoredHistory(n) == [i \in 1..n |-> Entry(n + 1 - i, "old.png")]
StoredLengths == {0, 1, MaxEntries - 1, MaxEntries}
AddedJobIds == {1, MaxEntries + 1, MaxEntries + 2}
RemovedJobIds == {1, MaxEntries + 1}

StoreCall(op, jobId) ==
    [done |-> TRUE, op |-> op, jobId |-> jobId, entries |-> entries,
     storage |-> storage]

HistoryInit ==
    /\ EditorUnmounted
    /\ NoJobPage
    /\ args = NoCall
    /\ returned = NoCall
    /\ \E n \in StoredLengths :
          /\ entries = StoredHistory(n)
          /\ storage = StoredHistory(n)
    /\ nStoreEvents = 0

HistoryAdd(jobId, saved) ==
    /\ nStoreEvents < MaxStoreEvents
    /\ nStoreEvents' = nStoreEvents + 1
    /\ AddEntry(Entry(jobId, ResultImage), saved)
    /\ args' = StoreCall("addEntry", jobId)
    /\ UNCHANGED <<editorVars, returned, jobVars>>

HistoryRemove(jobId, saved) ==
    /\ nStoreEvents < MaxStoreEvents
    /\ nStoreEvents' = nStoreEvents + 1
    /\ RemoveEntry(jobId, saved)
    /\ args' = StoreCall("removeEntry", jobId)
    /\ UNCHANGED <<editorVars, returned, jobVars>>

HistoryClear(saved) ==
    /\ nStoreEvents < MaxStoreEvents
    /\ nStoreEvents' = nStoreEvents + 1
    /\ ClearHistory(saved)
    /\ args' = StoreCall("clearHistory", 0)
    /\ UNCHANGED <<editorVars, returned, jobVars>>

HistoryNext ==
    \/ \E jobId \in AddedJobIds, saved \in BOOLEAN : HistoryAdd(jobId, saved)
    \/ \E jobId \in RemovedJobIds, saved \in BOOLEAN :
          HistoryRemove(jobId, saved)
    \/ \E saved \in BOOLEAN : HistoryClear(saved)

HistorySpec == HistoryInit /\ [][HistoryNext]_vars

(***************************************************************************)
(* Properties of the vertex editor.  A property of a handleDragVertex call  *)
(* is stated over every call the editor can receive in the current state:  *)
(* the updater applied to the room list and the metadata prop it would     *)
(* find.                                                                   *)
(***************************************************************************)
\* <<roomId, <<vertexIndex, newPos>>>>
DragCalls == RoomIds \X DragInputs

\* What the updater returns for a call in the current state.
Updated(call) ==
    DragUpdater(rooms, propMeta, call[1], call[2][1], call[2][2])

\* The position in rooms of the room a call resolves to, 0 when there is none.
Target(call) == FindRoomIndex(rooms, call[1]) + 1

\* The call, which resolves to rooms[t], names a vertex of it.
TargetsVertex(t, call) ==
    t # 0 /\ InRange(rooms[t].polygon, call[2][1])

\* The call, which resolves to rooms[t], moves a vertex to the position it
\* already has.
SamePosition(t, call) ==
    /\ TargetsVertex(t, call)
    /\ rooms[t].polygon[call[2][1] + 1] = call[2][2]

\* Every element of the array is a vertex: no out-of-range write has left a
\* hole in it.
HasNoHole(polygon) == \A i \in 1..Len(polygon) : IsPoint(polygon[i])

\* The editor is mounted, every state change is rendered, every effect has run.
Quiescent ==
    ~crashed /\ view = "edit" /\ listening /\ dirty = {} /\ pendingEffects = {}

\* C1: once a vertex edit has emitted an aggregate, the total_area_sqft of the
\* aggregate the parent holds is the sum of area_sqft over the rooms of that
\* aggregate, whatever the sequence of edits.
TotalIsSumOfRooms ==
    nEmits > 0 => metadata.total_area_sqft = TotalSqft(metadata.rooms)

\* Two edits have been emitted on an aggregate that arrived with a total that
\* was not the sum of its rooms, and they have changed the sum.
TotalIsSumWitness ==
    /\ nEmits > 1
    /\ lastDrag.outcome = "edit"
    /\ upstream.total_area_sqft # TotalSqft(upstream.rooms)
    /\ metadata.total_area_sqft # upstream.total_area_sqft
    /\ metadata.total_area_sqft # TotalSqft(upstream.rooms)

\* C2: every vertex edit that resolves to a room leaves that room with
\* area_sqft >= 10, and with area_sqft = 10 when the edited polygon has no
\* area.
EditKeepsMinimumArea ==
    DragEnabled =>
        \A call \in DragCalls : \A res \in {Updated(call)} :
            (res.found /\ ~res.throws) =>
                \A room \in {res.rooms[Target(call)]} :
                    /\ room.area_sqft >= MinAreaSqft
                    /\ Area2(room.polygon) = 0 => room.area_sqft = MinAreaSqft

\* An edit has just collapsed a polygon of three or more vertices to no area
\* and the room, which came with more than 10, has area_sqft 10.
CollapsedRoomWitness ==
    /\ lastDrag.outcome = "edit"
    /\ lastDrag.inRange
    /\ "rooms" \in dirty
    /\ LET room == rooms[lastDrag.roomIndex + 1]
       IN  /\ Len(room.polygon) >= 3
           /\ HasNoHole(room.polygon)
           /\ Area2(room.polygon) = 0
           /\ room.area_sqft = MinAreaSqft
           /\ folded[lastDrag.roomIndex + 1].area_sqft = MinAreaSqft
           /\ upstream.rooms[lastDrag.roomIndex + 1].area_sqft > MinAreaSqft

\* C3: a vertex edit whose roomId resolves to no room returns the room list
\* it was given and hands nothing to onMetadataChange.
MissIsNoOp ==
    DragEnabled =>
        \A call \in DragCalls :
            Target(call) = 0 =>
                \A res \in {Updated(call)} :
                    ~res.throws /\ res.rooms = rooms /\ res.emit = << >>

\* A call on a non-empty room list has just resolved to no room, and the
\* parent still holds the aggregate it was given.
MissWitness ==
    /\ lastDrag.outcome = "miss"
    /\ Len(rooms) > 0
    /\ nEvents > 0
    /\ nEmits = 0
    /\ metadata = upstream

\* C4: a vertex edit on an existing room with a vertex index below 0 or at or
\* beyond the length of the polygon returns the room list unchanged and hands
\* nothing to onMetadataChange.
OutOfRangeIsNoOp ==
    DragEnabled =>
        \A call \in DragCalls : \A t \in {Target(call)} :
            (t # 0 /\ ~TargetsVertex(t, call)) =>
                \A res \in {Updated(call)} :
                    ~res.throws /\ res.rooms = rooms /\ res.emit = << >>

\* C5: when a drag arrives with nothing pending and no resize follows it, the
\* stageConfig the editor settles on is the stageConfig the drag found.
DragKeepsFit ==
    (Quiescent /\ lastDrag.outcome # "none" /\ lastDrag.quiet) =>
        stageConfig = lastDrag.fit

\* C6: in the 3D view the shell of every room is at height
\* (floor - 1) * wallHeight.
FloorsAreStacked ==
    view = "3d" =>
        \A i \in 1..Len(metadata.rooms) :
            ShellY(metadata.rooms[i])
                = (metadata.rooms[i].floor - 1) * wallHeight

EditFrame ==
    DragEnabled =>
        \A call \in DragCalls : \A t \in {Target(call)} :
            TargetsVertex(t, call) =>
                \A res \in {Updated(call)} :
                    ~res.throws =>
                        /\ res.rooms =
                             [rooms EXCEPT
                                 ![t].polygon[call[2][1] + 1] = call[2][2],
                                 ![t].area_sqft = res.rooms[t].area_sqft]
                        /\ res.emit[1] =
                             [metadata EXCEPT
                                 !.rooms = res.rooms,
                                 !.total_area_sqft =
                                     res.emit[1].total_area_sqft]

\* A vertex of one of two rooms has just been moved to another position.
EditFrameWitness ==
    /\ lastDrag.outcome = "edit"
    /\ lastDrag.inRange
    /\ ~lastDrag.samePos
    /\ "rooms" \in dirty
    /\ Len(rooms) = 2
    /\ metadata.rooms = rooms

\* C10: whenever the editor has settled, its room list is the list it loaded
\* with every drag since applied in arrival order, each to the result of the
\* one before.
DragsFoldInOrder == Quiescent => rooms = folded

(***************************************************************************)
(* Properties of the normalizer.                                           *)
(***************************************************************************)
\* The number of vertices among the elements of the array.
CountPoints(polygon) ==
    Cardinality({k \in 1..Len(polygon) : IsPoint(polygon[k])})

\* The polygon as calculatePolygonArea takes it: flat, with rational numbers.
FlatPoints(polygon) ==
    Flatten([k \in 1..Len(polygon) |->
                <<Rat(polygon[k][1]), Rat(polygon[k][2])>>])

\* r is x rounded to the nearest whole number, a half going up.
IsRounded(r, x) ==
    2 * r * x[2] - x[2] <= 2 * x[1] /\ 2 * x[1] < 2 * r * x[2] + x[2]

\* C22: an edit gives the room the area_sqft max(10, round(x)) with
\* x = newPixelArea * previous area_sqft / oldPixelArea, an oldPixelArea of 0
\* counting as 1; round(max(10, x)), as the code has it, is the same number.
EditedAreaIsFlooredRound ==
    returned.done =>
        LET new == calculatePolygonArea(FlatPoints(returned.value.polygon))
            old == calculatePolygonArea(FlatPoints(args.room.polygon))
            x == RDiv(RMul(new, Rat(args.room.area_sqft)),
                      IF old = Rat(0) THEN Rat(1) ELSE old)
        IN  \A r \in {MathRound(x)}, m \in {MathRound(RMax(Rat(10), x))} :
                /\ IsRounded(r, x)
                /\ IsRounded(m, RMax(Rat(10), x))
                /\ m = IF r < 10 THEN 10 ELSE r
                /\ returned.value.area_sqft = m

\* An edit took the area to a half above a whole number of more than 10.
RoundedHalfWitness ==
    /\ returned.done
    /\ returned.value.area_sqft > 10
    /\ calculatePolygonArea(FlatPoints(args.room.polygon)) # Rat(0)
    /\ \E x \in {RDiv(RMul(calculatePolygonArea(
                                FlatPoints(returned.value.polygon)),
                            Rat(args.room.area_sqft)),
                       calculatePolygonArea(FlatPoints(args.room.polygon)))} :
           x[2] = 2 /\ 2 * returned.value.area_sqft = x[1] + 1

\* C23: a drag of an anchor of rooms[i] modifies rooms[i] and no other room,
\* whatever ids the rooms of the list carry.
AnchorDragEditsItsRoom ==
    returned.done =>
        /\ returned.value.found
        /\ \A k \in 1..Len(args.rooms) :
              k # args.i + 1 => returned.value.rooms[k] = args.rooms[k]
        /\ returned.value.rooms[args.i + 1] =
               EditedRoom(args.rooms[args.i + 1], args.vertexIndex, args.newPos)

\* The interiors of two footprints meet.
Overlap(a, b) ==
    /\ RLess(a.minX, b.maxX) /\ RLess(b.minX, a.maxX)
    /\ RLess(a.minZ, b.maxZ) /\ RLess(b.minZ, a.maxZ)

\* C24: in the 3D projection the fallback rectangles of two rooms of one
\* floor that lack polygon data do not overlap in the ground plane, whatever
\* their widths and lengths.
GridFallbacksKeepApart ==
    returned.done =>
        \A i, j \in 1..Len(args) :
            /\ i < j
            /\ ~HasPolygon(args[i]) /\ ~HasPolygon(args[j])
            /\ FloorIndex(args[i]) = FloorIndex(args[j])
            => ~Overlap(returned.value[i], returned.value[j])

\* C26: a viewer opened with readOnly = true never shows the "edit" view, so
\* no editor is mounted and the viewer's metadata stays the initial one.
ReadOnlyNeverEdits ==
    readOnly =>
        /\ view # "edit"
        /\ ~listening /\ pendingEffects = {} /\ nEmits = 0
        /\ metadata = upstream

\* A read-only viewer was switched to the 3D view.
ReadOnlyThreeDWitness == readOnly /\ view = "3d"

\* No two entries of the list share a jobId.
NoDuplicates(es) ==
    \A i, j \in 1..Len(es) : es[i].jobId = es[j].jobId => i = j

\* C27: no two entries of the history share a jobId after any addEntry,
\* removeEntry and clearHistory; an addEntry of a jobId that is present
\* leaves the entries and the storage as they were.
HistoryHasNoDuplicates ==
    /\ NoDuplicates(entries)
    /\ args.done /\ args.op = "addEntry" /\ HasJob(args.entries, args.jobId)
       => entries = args.entries /\ storage = args.storage

\* The job of a stored entry was added again, with another image.
AddedAgainWitness ==
    /\ args.done /\ args.op = "addEntry"
    /\ \E i \in 1..Len(args.entries) :
          /\ args.entries[i].jobId = args.jobId
          /\ args.entries[i].imageUrl # ResultImage

\* C28: the history holds 50 entries at most; addEntry puts the new entry
\* first and, of a list of 50, drops the last entry and no other.
HistoryKeepsTheNewestFifty ==
    /\ Len(entries) <= 50
    /\ args.done /\ args.op = "addEntry" /\ ~HasJob(args.entries, args.jobId)
       => /\ entries[1] = Entry(args.jobId, ResultImage)
          /\ \A i \in 1..Len(args.entries) :
                i < 50 => entries[i + 1] = args.entries[i]
          /\ Len(entries) = IF Len(args.entries) = 50 THEN 50
                            ELSE Len(args.entries) + 1

\* A new job was added to a history of 50 entries.
FullHistoryWitness ==
    /\ args.done /\ args.op = "addEntry"
    /\ Len(args.entries) = 50
    /\ ~HasJob(args.entries, args.jobId)

\* C29: for every room list that is not empty and every viewport width
\* other than 0, narrow ones too, the fit scale is above 0 and 2 at most.
FitScaleIsPositive ==
    (returned.done /\ Len(args.rooms) > 0) =>
        /\ RLess(Rat(0), returned.value.scale)
        /\ ~RLess(Rat(MaxScale), returned.value.scale)

PolygonsKeepThreePoints ==
    \A i \in 1..Len(rooms) :
        Len(rooms[i].polygon) >= 3 /\ CountPoints(rooms[i].polygon) >= 3

\* Two edits at least have been applied, the last one to a room that came
\* without a polygon and got a synthesized one.
EditedFallbackWitness ==
    /\ nEmits >= 2
    /\ lastDrag.outcome = "edit"
    /\ lastDrag.roomIndex + 1 \in 1..Len(upstream.rooms)
    /\ Len(upstream.rooms[lastDrag.roomIndex + 1].polygon) < 3
    /\ Len(rooms) = Len(upstream.rooms)

\* The indexes of the rooms of a list that get a synthesized rectangle.
Synthesized(rs) == {i \in 1..Len(rs) : NeedsFallback(rs[i])}

\* The left and the right edge of a polygon.
LeftEdge(polygon) == SetMin({polygon[k][1] : k \in 1..Len(polygon)})
RightEdge(polygon) == SetMax({polygon[k][1] : k \in 1..Len(polygon)})

\* C12: the rectangles the normalizer synthesizes never overlap: each one
\* has its left edge 20 units at least to the right of the right edge of the
\* synthesized rectangle before it, whatever the room list.
FallbacksKeepApart ==
    returned.done =>
        \A i, j \in Synthesized(args) :
            i < j =>
                LeftEdge(returned.value[j].polygon)
                    >= RightEdge(returned.value[i].polygon) + FallbackGap

\* Three rectangles were synthesized, one of them for a width below zero.
ThreeFallbacksWitness ==
    /\ returned.done
    /\ Cardinality(Synthesized(args)) = 3
    /\ \E i \in 1..Len(args) : args[i] = Annex

FallbackHasTheArea ==
    returned.done =>
        \A p \in {returned.value} :
            /\ Len(p) = 4
            /\ p[1][2] = p[2][2] /\ p[3][2] = p[4][2]
            /\ p[1][1] = p[4][1] /\ p[2][1] = p[3][1]
            /\ RSub(p[2][1], p[1][1])
                 = RMul(MathSqrt(args.room.area_sqft), Rat(UnitsPerFoot))
            /\ MathRound(RDiv(calculatePolygonArea(Flatten(p)),
                              Rat(UnitsPerFoot * UnitsPerFoot)))
                 = args.room.area_sqft

\* A rectangle was synthesized past the origin for an area that is not a
\* perfect square.
IrrationalSideWitness ==
    /\ returned.done
    /\ args.room.area_sqft = 7
    /\ args.currentOffset # Rat(0)
    /\ Len(returned.value) = 4

(***************************************************************************)
(* Properties of the viewport fitter.                                      *)
(***************************************************************************)
\* The bounding box of the vertices of a room list.
BoxOf(rs) ==
    LET vs == AllVertices(rs)
    IN  [minX |-> SetMin({v[1] : v \in vs}), maxX |-> SetMax({v[1] : v \in vs}),
         minY |-> SetMin({v[2] : v \in vs}), maxY |-> SetMax({v[2] : v \in vs})]

\* m is the least of the numbers of S.
IsLeast(m, S) == m \in S /\ \A n \in S : ~RLess(n, m)

\* C15: for a room list that is not empty, with a bounding box of width cw
\* and height ch (an extent of 0 counts as 1), and a viewport W x H, the fit
\* scale is min((W - 80) / cw, (H - 80) / ch, 2); a 200 x 100 box in a
\* 400 x 400 viewport gets the scale 1.6.
FitScaleIsTheMinimum ==
    (returned.done /\ Len(args.rooms) > 0) =>
        \A box \in {BoxOf(args.rooms)} :
            LET cw == IF box.maxX = box.minX THEN 1 ELSE box.maxX - box.minX
                ch == IF box.maxY = box.minY THEN 1 ELSE box.maxY - box.minY
                W == args.dimensions.width
                H == args.dimensions.height
            IN  /\ IsLeast(returned.value.scale,
                           {RDiv(Rat(W - 80), Rat(cw)), RDiv(Rat(H - 80), Rat(ch)),
                            Rat(2)})
                /\ (cw = 200 /\ ch = 100 /\ W = 400 /\ H = 400)
                      => returned.value.scale = <<8, 5>>

\* The 200 x 100 box was fitted into the 400 x 400 viewport.
FitExampleWitness ==
    /\ returned.done
    /\ args.rooms = <<Room(FALSE, 0, "room", Wide, 100, FALSE, 0, 0, 0)>>
    /\ args.dimensions = [width |-> 400, height |-> 400]
    /\ returned.value.scale = <<8, 5>>

\* C16: for every room list that is not empty and every viewport, the fit
\* transform puts the bounding box of the vertices in the middle of the
\* viewport (equal margins left and right, equal margins above and below)
\* and inside the viewport inset by the padding of 40 on every side.
FitCentresInsidePadding ==
    (returned.done /\ Len(args.rooms) > 0) =>
        \A box \in {BoxOf(args.rooms)} :
            LET fit == returned.value
                W == Rat(args.dimensions.width)
                H == Rat(args.dimensions.height)
                xs == {RAdd(RMul(Rat(box.minX), fit.scale), fit.x),
                       RAdd(RMul(Rat(box.maxX), fit.scale), fit.x)}
                ys == {RAdd(RMul(Rat(box.minY), fit.scale), fit.y),
                       RAdd(RMul(Rat(box.maxY), fit.scale), fit.y)}
            IN  \E left, right \in xs, top, bottom \in ys :
                    /\ IsLeast(left, xs) /\ IsLeast(top, ys)
                    /\ xs = {left, right} /\ ys = {top, bottom}
                    /\ left = RSub(W, right)
                    /\ top = RSub(H, bottom)
                    /\ ~RLess(left, Rat(Padding))
                    /\ ~RLess(top, Rat(Padding))

\* C17: whenever the room list of the editor is empty or has no vertex, the
\* stageConfig in effect is the identity (scale 1, x 0, y 0), whatever was
\* fitted before.
EmptyListHasIdentityFit ==
    (Len(rooms) = 0 \/ AllVertices(rooms) = {}) => stageConfig = Identity

\* The auto-scaling effect has run on an empty room list after the container
\* was resized.
EmptyListFittedWitness ==
    /\ Quiescent
    /\ Len(rooms) = 0
    /\ rendDims.width # 0
    /\ rendDims.width # SetMax(Widths)

(***************************************************************************)
(* Properties of the area calculator.                                      *)
(***************************************************************************)
\* The unit cells inside a polygon with sides along the axes: the cell with
\* the lower left corner <<cx, cy>> is inside when an odd number of vertical
\* sides lies to its right at its height.
CellsInside(polygon) ==
    LET n == Len(polygon)
        prev(i) == IF i = 1 THEN n ELSE i - 1
        xs == {polygon[i][1] : i \in 1..n}
        ys == {polygon[i][2] : i \in 1..n}
        crossings(cx, cy) ==
            {i \in 1..n :
                /\ polygon[i][1] = polygon[prev(i)][1]
                /\ polygon[i][1] > cx
                /\ \/ polygon[i][2] <= cy /\ cy < polygon[prev(i)][2]
                   \/ polygon[prev(i)][2] <= cy /\ cy < polygon[i][2]}
    IN  {c \in (SetMin(xs)..(SetMax(xs) - 1)) \X (SetMin(ys)..(SetMax(ys) - 1)) :
            Cardinality(crossings(c[1], c[2])) % 2 = 1}

\* C18: for every simple polygon with sides along the axes and whole
\* vertices calculatePolygonArea returns the exact area, which is
\* |sum (x[j] + x[i]) * (y[j] - y[i])| / 2 with j the index before i: the
\* unit square has the area 1, a 3 x 4 rectangle the area 12.
AreaIsExact ==
    (returned.done /\ args \in AxisAlignedPolygons) =>
        /\ returned.value = Rat(Cardinality(CellsInside(args)))
        /\ returned.value = Norm(Abs(ShoelaceSum(args, 1)), 2)
        /\ (args = Rectangle(0, 0, 1, 1)) => returned.value = Rat(1)
        /\ (args = Rectangle(0, 0, 3, 4)) => returned.value = Rat(12)

\* The area of an L-shaped polygon walked clockwise was computed.
ClockwiseLShapeWitness ==
    /\ returned.done
    /\ args = Reversed(LShape(0, 0, 3, 4, 1, 1))
    /\ returned.value = Rat(6)

\* The points all lie on one line (or there are fewer than 3 of them).
Collinear(polygon) ==
    \A i, j, k \in 1..Len(polygon) :
        (polygon[j][1] - polygon[i][1]) * (polygon[k][2] - polygon[i][2])
            = (polygon[k][1] - polygon[i][1]) * (polygon[j][2] - polygon[i][2])

\* C19: calculatePolygonArea returns 0, and raises no error, for every
\* degenerate input: no point, one point, two points, any number of
\* collinear points.
DegenerateAreaIsZero ==
    (returned.done /\ Collinear(args)) => returned.value = Rat(0)

\* The area of four points of a slanted line, visited out of order, was
\* computed.
SlantedLineWitness ==
    /\ returned.done
    /\ args = << <<0, 0>>, <<2, 2>>, <<1, 1>>, <<2, 2>> >>
    /\ returned.value = Rat(0)

(***************************************************************************)
(* Properties of the color resolver.                                       *)
(***************************************************************************)
\* The entries of ROOM_COLORS whose keyword is part of a string.
Matches(str) == {i \in 1..Len(ROOM_COLORS) : Includes(str, ROOM_COLORS[i].key)}

\* C20: getRoomColor returns the color of the first keyword, in the order of
\* the table (bedroom, bathroom, kitchen, living, hall, dining, balcony,
\* corridor, default), that is part of the lower-cased type, and #888888
\* when there is none; the letter case of the type does not matter.
ColorIsFirstMatch ==
    returned.done =>
        /\ \A m \in {Matches(toLowerCase(args))} :
               /\ m = {} => returned.value = "#888888"
               /\ m # {} => \E i \in m :
                                /\ \A j \in m : i <= j
                                /\ returned.value = ROOM_COLORS[i].color
        /\ getRoomColor(toUpperCase(args)) = returned.value
        /\ getRoomColor(toLowerCase(args)) = returned.value

\* "DiningHall", which names the later keyword of the table first and
\* neither of them in lower case, got the color of hall.
TwoKeywordsWitness ==
    /\ returned.done
    /\ args = <<"D", "i", "n", "i", "n", "g", "H", "a", "l", "l">>
    /\ Matches(args) = {}
    /\ returned.value = "#b8a9c9"

(***************************************************************************)
(* Properties of the job page.                                             *)
(***************************************************************************)
\* C21: the status is polled every 2 seconds while the status last observed
\* is pending or processing (a poll that has answered is followed by
\* another one), and once a poll has observed completed or failed no poll is
\* scheduled or sent any more.
PollingRepeatsUntilDone ==
    /\ [](job \in {"pending", "processing"} => pollTimer = 2000)
    /\ [](job \in {"completed", "failed"} => pollTimer = 0 /\ ~statusFetching)
    /\ (job \in {"pending", "processing"} /\ ~statusFetching) ~> statusFetching

\* A poll has observed processing and the next poll is on its way.
NextPollWitness ==
    job = "processing" /\ statusFetching /\ pollTimer = PollInterval

\* C25: the result of the job is requested only once a status poll has
\* observed completed, never while the status is unknown, pending,
\* processing or failed, and the entry of the job is added to the history
\* only once that result has arrived.
ResultOnlyAfterCompleted ==
    /\ resultQuery # "disabled" => job = "completed"
    /\ HasJob(entries, PageJobId) =>
           \/ resultQuery = "success"
           \/ \E i \in 1..Len(entries) : entries[i] = Entry(PageJobId, "old.png")

\* The result arrived and its entry was put in front of the entry of
\* another job.
ResultAddedWitness ==
    /\ resultQuery = "success"
    /\ job = "completed"
    /\ entries = <<Entry(PageJobId, ResultImage), Entry(2, "other.png")>>

====
